---- MODULE Spec2Model ----
(***************************************************************************)
(* Session / authentication management of the Reducx to-do demo:           *)
(*   Service/authService.ts   login, logout, decodeJWT, stored-session     *)
(*                            getters (localStorage)                       *)
(*   features/auth/authSlice.ts   initialState, the loginAsync thunk and   *)
(*                            the auth reducers                            *)
(*   Components/Login.tsx     loginHandler (the submit guard)              *)
(*                                                                         *)
(* JavaScript values are represented as follows.                           *)
(*   - a string is a sequence of atoms (an atom is a character or an       *)
(*     opaque run of characters); the empty string is << >>;               *)
(*   - `T | null` and `T | undefined` are sets of at most one element:     *)
(*     {} is null / undefined, {v} is the value v;                         *)
(*   - an object is a function from its own property names to values;      *)
(*   - a call that may throw returns [thrown, value].                      *)
(***************************************************************************)
EXTENDS Integers, Sequences, FiniteSets

VARIABLES
    localStorage,   \* the three Session Store keys
    auth,           \* the Redux auth slice (AuthState)
    inFlight,       \* number of login requests awaiting the server
    last,           \* the last event handled
    call,           \* a call of decodeJWT on its own: the token and the result
    todos,          \* the todo slice: state.todos
    nanoids         \* the ids nanoid has returned so far

vars == <<localStorage, auth, inFlight, last, call, todos, nanoids>>

----------------------------------------------------------------------------
(* Bounds *)

\* Logins that may await their response at the same time.
MaxInFlight == 2

\* Longest text typed into the email or the password field.
MaxInputLen == 2

\* Longest token, in atoms, handed to decodeJWT on its own.
MaxTokenLen == 5

\* Todos added in one visit.
MaxAdds == 2

----------------------------------------------------------------------------
(* JavaScript values *)

null == {}

Some(v) == {v}

ValueOf(o) == CHOOSE v \in o : TRUE

\* A one-atom string.
Str(a) == <<a>>

\* ToBoolean of a `string | null | undefined`.
Truthy(o) == o # null /\ o # Some(<< >>)

\* a || b, for a string operand a.
OrElse(a, b) == IF Truthy(a) THEN a ELSE b

\* String(v): localStorage.setItem stores the string conversion of its value.
StringOf(o) == IF o = null THEN Str("undefined") ELSE ValueOf(o)

Return(v) == [thrown |-> FALSE, value |-> v]

Throw == [thrown |-> TRUE, value |-> null]

\* obj[k]: undefined when obj has no own property k.
Get(obj, k) == IF k \in DOMAIN obj THEN obj[k] ELSE null

----------------------------------------------------------------------------
(* JSON text.  A text is [kind, members]: an object literal with its       *)
(* members in order, the literal null, or text that is not JSON.           *)

UserKeys == <<"email", "nameid", "unique_name", "role">>

Range(s) == {s[i] : i \in 1..Len(s)}

JSONText(kind, members) == [kind |-> kind, members |-> members]

NotJSON == JSONText("invalid", << >>)

\* JSON.stringify of an object with the keys of UserKeys: a property whose
\* value is undefined is left out.
RECURSIVE StringifyMembers(_, _)
StringifyMembers(obj, keys) ==
    IF keys = << >> THEN << >>
    ELSE LET k == Head(keys)
             rest == StringifyMembers(obj, Tail(keys))
         IN IF Get(obj, k) = null THEN rest
            ELSE <<(<<k, ValueOf(obj[k])>>)>> \o rest

JSONstringify(obj) == JSONText("object", StringifyMembers(obj, UserKeys))

\* JSON.parse: throws on text that is not JSON.
JSONparse(text) ==
    IF text.kind = "invalid" THEN Throw
    ELSE IF text.kind = "null" THEN Return(null)
    ELSE LET m == text.members
             keys == {m[i][1] : i \in 1..Len(m)}
             valueOf(k) == m[CHOOSE i \in 1..Len(m) :
                                m[i][1] = k /\ \A j \in (i+1)..Len(m) : m[j][1] # k][2]
         IN Return(Some([k \in keys |-> Some(valueOf(k))]))

----------------------------------------------------------------------------
(* Tokens.  A token is a string whose atoms are the delimiter "." and      *)
(* base64 chunks; Base64Decode gives the text a chunk decodes to, and an   *)
(* atom outside its domain is not base64.                                  *)

Base64Decode ==
    [hdr   |-> JSONText("object", <<(<<"alg", Str("HS256")>>)>>),
     pA    |-> JSONText("object", <<(<<"email", Str("a@b.com")>>),
                                    (<<"nameid", Str("42")>>),
                                    (<<"unique_name", Str("Alice")>>),
                                    (<<"role", Str("Admin")>>),
                                    (<<"exp", Str("1700000000")>>)>>),
     pB    |-> JSONText("object", <<(<<"email", Str("b@b.com")>>),
                                    (<<"nameid", Str("7")>>),
                                    (<<"unique_name", Str("Bob")>>)>>),
     pNull |-> JSONText("null", << >>),
     pBin  |-> NotJSON,
     sig   |-> NotJSON]

\* token.split('.')
RECURSIVE split(_)
split(s) ==
    IF \E i \in 1..Len(s) : s[i] = "."
    THEN LET i == CHOOSE i \in 1..Len(s) :
                      s[i] = "." /\ \A j \in 1..(i-1) : s[j] # "."
         IN <<SubSeq(s, 1, i-1)>> \o split(SubSeq(s, i+1, Len(s)))
    ELSE <<s>>

\* array[i], zero-based: undefined past the end.
At(array, i) == IF i + 1 <= Len(array) THEN Some(array[i+1]) ELSE null

\* atob: throws on anything that is not base64 (the string "undefined",
\* which an undefined argument converts to, is not); the bytes of one chunk
\* are that chunk's text, any other number of chunks gives no JSON document.
atob(arg) ==
    LET s == StringOf(arg)
    IN IF \E i \in 1..Len(s) : s[i] \notin DOMAIN Base64Decode THEN Throw
       ELSE IF Len(s) = 1 THEN Return(Base64Decode[s[1]])
       ELSE Return(NotJSON)

\* decodeJWT preferring the token of the session at hand to its argument.
decodeJWT_OfStoredToken(token) ==
    LET stored == localStorage["accessToken"]
        payload == At(split(IF stored # null THEN ValueOf(stored) ELSE token), 1)
        bytes == atob(payload)
    IN IF bytes.thrown THEN null
       ELSE LET decoded == JSONparse(bytes.value)
            IN IF decoded.thrown THEN null ELSE decoded.value

\* authService.ts decodeJWT: the parsed payload, or null when anything in
\* the try block throws.
decodeJWT(token) ==
    LET payload == At(split(token), 1)
        bytes == atob(payload)
    IN IF bytes.thrown THEN null
       ELSE LET decoded == JSONparse(bytes.value)
            IN IF decoded.thrown THEN null ELSE decoded.value

----------------------------------------------------------------------------
(* The Session Store: localStorage under the three keys.                   *)

StoreKeys == {"accessToken", "refreshToken", "user"}

setItem(store, key, value) == [store EXCEPT ![key] = Some(value)]

removeItem(store, key) == [store EXCEPT ![key] = null]

EmptyStore == [k \in StoreKeys |-> null]

\* logoutApi forgetting the user key.
logoutApi_KeepsUser(store) ==
    removeItem(removeItem(store, "accessToken"), "refreshToken")

\* authService.ts logout
logoutApi(store) ==
    removeItem(removeItem(removeItem(store, "accessToken"), "refreshToken"), "user")

\* authService.ts getStoredUser
getStoredUser(store) ==
    LET user == store["user"]
    IN IF user # null THEN JSONparse(ValueOf(user)) ELSE Return(null)

\* authService.ts isAuthenticated
isAuthenticated(store) == Truthy(store["accessToken"])

----------------------------------------------------------------------------
(* The login call.                                                         *)

GenericMessage == Str("Network error or server unavailable")

\* authService.ts class AuthError: an Error with a status.
AuthError(message, status) ==
    [name |-> "AuthError", message |-> message, status |-> Some(status)]

\* What fetch and response.json() reject with: an Error that is not an
\* AuthError and has no status property.
OtherError == [name |-> "TypeError", message |-> Str("Failed to fetch"), status |-> null]

ThrowError(e) == [thrown |-> TRUE, value |-> e]

\* handleApiResponse putting its own text in place of the server's message.
handleApiResponse_OwnMessage(response) ==
    IF response.json.thrown THEN ThrowError(OtherError)
    ELSE LET data == response.json.value
         IN IF ~response.ok
            THEN ThrowError(AuthError(Str("An error occurred"), response.status))
            ELSE Return(data)

\* authService.ts handleApiResponse
handleApiResponse(response) ==
    IF response.json.thrown THEN ThrowError(OtherError)
    ELSE LET data == response.json.value
         IN IF ~response.ok
            THEN ThrowError(AuthError(ValueOf(OrElse(data.message, Some(Str("An error occurred")))),
                                      response.status))
            ELSE Return(data)

\* userInfo with the id and the display name taken from each other's claim.
userInfo_Swapped(decodedToken) ==
    [email       |-> Get(decodedToken, "email"),
     nameid      |-> Get(decodedToken, "unique_name"),
     unique_name |-> Get(decodedToken, "nameid"),
     role        |-> Get(decodedToken, "role")]

\* authService.ts login, the record built from the decoded token
userInfo(decodedToken) ==
    [email       |-> Get(decodedToken, "email"),
     nameid      |-> Get(decodedToken, "nameid"),
     unique_name |-> Get(decodedToken, "unique_name"),
     role        |-> Get(decodedToken, "role")]

\* loginCatch dropping the persisted session when the login fails.
loginCatch_ClearsStore(error, store) ==
    [thrown |-> TRUE,
     value |-> IF error.name = "AuthError" THEN error
               ELSE AuthError(GenericMessage, 500),
     store |-> logoutApi(store)]

\* authService.ts login, the catch block: an AuthError is thrown again, any
\* other error becomes the generic AuthError; the Session Store is not
\* touched.
loginCatch(error, store) ==
    [thrown |-> TRUE,
     value |-> IF error.name = "AuthError" THEN error
               ELSE AuthError(GenericMessage, 500),
     store |-> store]

\* What localStorage.setItem throws when the browser refuses the write.
QuotaError ==
    [name |-> "QuotaExceededError", message |-> Str("The quota has been exceeded"),
     status |-> null]

\* The writes of a login, in the order login makes them.
Writes == <<"accessToken", "refreshToken", "user">>

\* No write of the login fails.
NoFailedWrite == 0

\* persist carrying on after a write the browser refused.
persist_IgnoresFailedWrite(data, store, failAt) ==
    LET write(st, n, value) == IF failAt = n THEN st ELSE setItem(st, Writes[n], value)
        s1 == write(store, 1, StringOf(data.accessToken))
        s2 == write(s1, 2, StringOf(data.refreshToken))
        decodedToken == decodeJWT(ValueOf(data.accessToken))
    IN IF decodedToken # null
       THEN LET info == userInfo(ValueOf(decodedToken))
            IN [thrown |-> FALSE,
                value |-> [data EXCEPT !.user = Some(info)],
                store |-> write(s2, 3, JSONstringify(info)),
                refused |-> failAt \in {1, 2, 3}]
       ELSE [thrown |-> FALSE, value |-> data, store |-> s2,
             refused |-> failAt \in {1, 2}]

\* authService.ts login, the body of `if (data.success && data.accessToken)`:
\* the three setItem calls around decodeJWT.  The write numbered failAt
\* throws and the statements after it are not run; `refused` tells whether
\* login got to make that write.
persist(data, store, failAt) ==
    LET s1 == setItem(store, "accessToken", StringOf(data.accessToken))
        s2 == setItem(s1, "refreshToken", StringOf(data.refreshToken))
        decodedToken == decodeJWT(ValueOf(data.accessToken))
        refusedAt(st) == [thrown |-> TRUE, value |-> QuotaError, store |-> st,
                          refused |-> TRUE]
    IN IF failAt = 1 THEN refusedAt(store)
       ELSE IF failAt = 2 THEN refusedAt(s1)
       ELSE IF decodedToken # null
       THEN LET info == userInfo(ValueOf(decodedToken))
            IN IF failAt = 3 THEN refusedAt(s2)
               ELSE [thrown |-> FALSE,
                     value |-> [data EXCEPT !.user = Some(info)],
                     store |-> setItem(s2, "user", JSONstringify(info)),
                     refused |-> FALSE]
       ELSE [thrown |-> FALSE, value |-> data, store |-> s2, refused |-> FALSE]

\* authService.ts login, the try block from the moment fetch settles: the
\* value it returns or the error raised in it, and the Session Store it
\* leaves.
loginTry(response, store, failAt) ==
    LET handled == IF response.failed THEN ThrowError(OtherError)
                   ELSE handleApiResponse(response)
    IN IF handled.thrown
       THEN [thrown |-> TRUE, value |-> handled.value, store |-> store,
             refused |-> FALSE]
       ELSE LET data == handled.value
            IN IF data.success /\ Truthy(data.accessToken)
               THEN persist(data, store, failAt)
               ELSE [thrown |-> FALSE, value |-> data, store |-> store,
                     refused |-> FALSE]

\* authService.ts login, try and catch, with the write numbered failAt
\* refused.
loginWriting(response, store, failAt) ==
    LET tried == loginTry(response, store, failAt)
    IN IF tried.thrown THEN loginCatch(tried.value, tried.store)
       ELSE [thrown |-> FALSE, value |-> tried.value, store |-> tried.store]

\* authService.ts login, from the moment fetch settles, on a Session Store
\* that takes every write: the value returned or the error thrown, and the
\* Session Store it leaves.
login(response, store) == loginWriting(response, store, NoFailedWrite)

----------------------------------------------------------------------------
(* The auth slice.                                                         *)

\* authSlice.ts initialState, computed from the Session Store when the module
\* loads.  getStoredUser() || null: an object is always truthy.  The user key
\* is written by login only, as JSON.stringify text, so the parse in
\* getStoredUser returns here; on text that is not JSON it would throw and
\* the module would not load.
initialState(store) ==
    [user            |-> getStoredUser(store).value,
     accessToken     |-> store["accessToken"],
     refreshToken    |-> store["refreshToken"],
     isAuthenticated |-> isAuthenticated(store),
     loading         |-> FALSE,
     error           |-> null,
     loginMessage    |-> null]

\* The payload creator of loginAsync once loginApi has settled: the action
\* the thunk dispatches.  Every error login throws is an Error.
loginAsync(result) ==
    IF result.thrown
    THEN [type |-> "auth/login/rejected", payload |-> Some(result.value.message)]
    ELSE [type |-> "auth/login/fulfilled", payload |-> result.value]

\* logoutReducer leaving the error of a failed login in place.
logoutReducer_KeepsError(state) ==
    [state EXCEPT !.user = null, !.accessToken = null, !.refreshToken = null,
                  !.isAuthenticated = FALSE, !.loading = FALSE,
                  !.loginMessage = null]

\* reducers.logout, without its call of logoutApi
logoutReducer(state) ==
    [state EXCEPT !.user = null, !.accessToken = null, !.refreshToken = null,
                  !.isAuthenticated = FALSE, !.error = null, !.loading = FALSE,
                  !.loginMessage = null]

\* clearErrorReducer dropping the login message along with the error.
clearErrorReducer_ClearsMessage(state) ==
    [state EXCEPT !.error = null, !.loginMessage = null]

\* reducers.clearError
clearErrorReducer(state) == [state EXCEPT !.error = null]

\* pending starting the new login from a clean slate.
pending_DropsSession(state) ==
    [state EXCEPT !.loading = TRUE, !.error = null, !.user = null,
                  !.accessToken = null, !.refreshToken = null,
                  !.isAuthenticated = FALSE]

\* setLoadingReducer tidying the error away as well.
setLoadingReducer_ClearsError(state, payload) ==
    [state EXCEPT !.loading = payload, !.error = null]

\* reducers.setLoading
setLoadingReducer(state, payload) == [state EXCEPT !.loading = payload]

\* extraReducers, loginAsync.pending
pending(state) == [state EXCEPT !.loading = TRUE, !.error = null]

\* fulfilled leaving the error of an earlier login in place.
fulfilled_KeepsError(state, payload) ==
    [state EXCEPT !.loading = FALSE,
                  !.user = payload.user,
                  !.accessToken = OrElse(payload.accessToken, null),
                  !.refreshToken = OrElse(payload.refreshToken, null),
                  !.isAuthenticated = TRUE,
                  !.loginMessage = OrElse(payload.message, null)]

\* fulfilled with a guard that drops a result nobody is waiting for.
fulfilled_UnlessIdle(state, payload) ==
    IF ~state.loading THEN state
    ELSE [state EXCEPT !.loading = FALSE,
                       !.user = payload.user,
                       !.accessToken = OrElse(payload.accessToken, null),
                       !.refreshToken = OrElse(payload.refreshToken, null),
                       !.isAuthenticated = TRUE,
                       !.error = null,
                       !.loginMessage = OrElse(payload.message, null)]

\* fulfilled leaving the spinner on.
fulfilled_KeepsLoading(state, payload) ==
    [state EXCEPT !.user = payload.user,
                  !.accessToken = OrElse(payload.accessToken, null),
                  !.refreshToken = OrElse(payload.refreshToken, null),
                  !.isAuthenticated = TRUE,
                  !.error = null,
                  !.loginMessage = OrElse(payload.message, null)]

\* extraReducers, loginAsync.fulfilled
fulfilled(state, payload) ==
    [state EXCEPT !.loading = FALSE,
                  !.user = payload.user,
                  !.accessToken = OrElse(payload.accessToken, null),
                  !.refreshToken = OrElse(payload.refreshToken, null),
                  !.isAuthenticated = TRUE,
                  !.error = null,
                  !.loginMessage = OrElse(payload.message, null)]

\* rejected leaving the spinner on.
rejected_KeepsLoading(state, payload) ==
    [state EXCEPT !.user = null, !.accessToken = null,
                  !.refreshToken = null, !.isAuthenticated = FALSE,
                  !.error = payload, !.loginMessage = null]

\* rejected giving way to a login that already succeeded.
rejected_FirstWins(state, payload) ==
    IF state.isAuthenticated THEN [state EXCEPT !.loading = FALSE]
    ELSE [state EXCEPT !.loading = FALSE, !.user = null, !.accessToken = null,
                       !.refreshToken = null, !.isAuthenticated = FALSE,
                       !.error = payload, !.loginMessage = null]

\* rejected keeping the session the slice held.
rejected_KeepsSession(state, payload) ==
    [state EXCEPT !.loading = FALSE, !.error = payload, !.loginMessage = null]

\* extraReducers, loginAsync.rejected
rejected(state, payload) ==
    [state EXCEPT !.loading = FALSE, !.user = null, !.accessToken = null,
                  !.refreshToken = null, !.isAuthenticated = FALSE,
                  !.error = payload, !.loginMessage = null]

----------------------------------------------------------------------------
(* The login form.                                                         *)

Whitespace == {" "}

InputChars == {" ", "a"}

Inputs == UNION {[1..n -> InputChars] : n \in 0..MaxInputLen}

\* String.prototype.trim
RECURSIVE trim(_)
trim(s) ==
    IF s = << >> THEN s
    ELSE IF Head(s) \in Whitespace THEN trim(Tail(s))
    ELSE IF s[Len(s)] \in Whitespace THEN trim(SubSeq(s, 1, Len(s) - 1))
    ELSE s

\* submitAccepted testing the fields as typed.
submitAccepted_NoTrim(input) == input.email # << >> /\ input.password # << >>

\* Login.tsx loginHandler: the early return
submitAccepted(input) == trim(input.email) # << >> /\ trim(input.password) # << >>

\* submitEnabled with a button that stays live while a login is loading.
submitEnabled_IgnoresLoading(state, input) ==
    trim(input.email) # << >> /\ trim(input.password) # << >>

\* Login.tsx, the submit button: disabled={loading || !input.email.trim() ||
\* !input.password.trim()}
submitEnabled(state, input) ==
    ~state.loading /\ trim(input.email) # << >> /\ trim(input.password) # << >>

----------------------------------------------------------------------------
(* The todo slice.                                                         *)

\* todoSlice.ts initialState.todos
todoInitialState == <<[id |-> Str("1"), text |-> Str("Hello world")]>>

\* What nanoid() can return: 21 random characters, never the text "1".
NanoIds == {Str("V1StGXR8_Z5jdHi6B-myT"), Str("Uakgb_J5m9g-0JDMbcJqL"),
            Str("ppBqWA9-mXcv2d_5Jq1tc")}

\* nanoid handing out an id it has handed out before.
nanoid_Repeating(returned) == NanoIds

\* nanoid(): an id, which for a generator of 126 random bits is one it has
\* not returned before.
nanoid(returned) == NanoIds \ returned

\* What the user types as the text of a todo.
TodoTexts == {<< >>, Str("Hello world"), Str("b")}

\* addTodoReducer putting the new item first.
addTodoReducer_Prepends(state, id, payload) ==
    <<[id |-> id, text |-> payload]>> \o state

\* reducers.addTodo, with the id nanoid() returned
addTodoReducer(state, id, payload) ==
    Append(state, [id |-> id, text |-> payload])

\* removeTodoReducer dropping the matching item and all that follow it.
removeTodoReducer_Truncates(state, payload) ==
    IF \E i \in 1..Len(state) : state[i].id = payload
    THEN SubSeq(state, 1, (CHOOSE i \in 1..Len(state) :
                              state[i].id = payload
                              /\ \A j \in 1..(i-1) : state[j].id # payload) - 1)
    ELSE state

\* reducers.removeTodo
removeTodoReducer(state, payload) ==
    LET kept(todo) == todo.id # payload
    IN SelectSeq(state, kept)

----------------------------------------------------------------------------
(* What the server may answer.                                             *)

TokenA == <<"hdr", ".", "pA", ".", "sig">>

TokenB == <<"hdr", ".", "pB", ".", "sig">>

TokenNoDot == <<"pA">>

ResponseTokens == {null, Some(TokenA), Some(TokenB), Some(TokenNoDot)}

ResponseRefreshTokens == {null, Some(<< >>), Some(Str("r1"))}

ResponseMessages == {Some(<< >>), Some(Str("ok"))}

ErrorMessages == {null, Some(<< >>), Some(Str("Invalid credentials"))}

Body(success, accessToken, refreshToken, message) ==
    [success |-> success, accessToken |-> accessToken,
     refreshToken |-> refreshToken, message |-> message, user |-> null]

NoBody == Body(FALSE, null, null, null)

Response(failed, ok, status, json) ==
    [failed |-> failed, ok |-> ok, status |-> status, json |-> json]

\* fetch rejected: no HTTP response.
TransportFailure == Response(TRUE, FALSE, 0, Return(NoBody))

\* A response whose body is not JSON: response.json() rejects.
BadBodies ==
    {Response(FALSE, ok, IF ok THEN 200 ELSE 502, [thrown |-> TRUE, value |-> NoBody]) :
        ok \in BOOLEAN}

\* A non-2xx response with a JSON body.
ErrorResponses ==
    {Response(FALSE, FALSE, 401, Return(Body(FALSE, null, null, m))) : m \in ErrorMessages}

\* A 2xx response with a JSON body.
OkResponses ==
    {Response(FALSE, TRUE, 200, Return(Body(s, a, r, m))) :
        s \in BOOLEAN, a \in ResponseTokens, r \in ResponseRefreshTokens,
        m \in ResponseMessages}

Responses == {TransportFailure} \cup BadBodies \cup ErrorResponses \cup OkResponses

----------------------------------------------------------------------------
(* The state machine.  One action is one task of the event loop: a store   *)
(* dispatch runs its reducer synchronously, and the continuation of login  *)
(* after the response runs through to the thunk's dispatch in the same     *)
(* chain of microtasks, so no handler runs in between.                     *)

\* A text made of whitespace only.
Blank(s) == \A i \in 1..Len(s) : s[i] \in Whitespace

\* The event being handled: the action dispatched to the store, with the
\* message it carries when it is a rejected login and the data it carries
\* when it is a fulfilled one; the response a settling login received;
\* whether the slice was authenticated when the event arrived; for a submit
\* whether a field of the form held whitespace only; for a settlement
\* whether the event handled before it was a logout or another settlement,
\* and whether the browser refused a write of that login.
Event(type, payload, response, blankInput) ==
    [type |-> type,
     payload |-> IF type = "auth/login/fulfilled" THEN null ELSE payload,
     data |-> IF type = "auth/login/fulfilled" THEN payload ELSE NoBody,
     response |-> response,
     wasAuthenticated |-> auth.isAuthenticated, blankInput |-> blankInput,
     writeFailed |-> FALSE,
     settledAfter |->
         IF type \notin {"auth/login/fulfilled", "auth/login/rejected"} THEN "other"
         ELSE IF last.type \in {"auth/login/fulfilled", "auth/login/rejected"} THEN "settle"
         ELSE IF last.type = "auth/logout" THEN "logout"
         ELSE "other"]

\* No call of decodeJWT on its own.
NoCall == [token |-> << >>, returned |-> FALSE, value |-> null]

\* A browser that has never held a session loads the application.
Init ==
    /\ localStorage = EmptyStore
    /\ auth = initialState(EmptyStore)
    /\ inFlight = 0
    /\ last = [type |-> "@@INIT", payload |-> null, data |-> NoBody, response |-> null,
               wasAuthenticated |-> FALSE, blankInput |-> FALSE,
               writeFailed |-> FALSE, settledAfter |-> "other"]
    /\ call = NoCall
    /\ todos = todoInitialState
    /\ nanoids = {}

\* The page is loaded again: the module is evaluated anew, initialState is
\* read from the Session Store and the requests of the old page are gone.
reload ==
    /\ auth' = initialState(localStorage)
    /\ inFlight' = 0
    /\ last' = Event("@@INIT", null, null, FALSE)
    /\ todos' = todoInitialState
    /\ UNCHANGED <<localStorage, call, nanoids>>

\* Login.tsx loginHandler: return on an empty field, else dispatch the thunk,
\* which dispatches pending and calls fetch before it first suspends.
loginHandler(input) ==
    LET blank == Blank(input.email) \/ Blank(input.password)
    IN IF ~submitAccepted(input)
       THEN /\ last' = Event("loginHandler/return", null, null, blank)
            /\ UNCHANGED <<localStorage, auth, inFlight, call, todos, nanoids>>
       ELSE /\ inFlight < MaxInFlight
            /\ auth' = pending(auth)
            /\ inFlight' = inFlight + 1
            /\ last' = Event("auth/login/pending", null, null, blank)
            /\ UNCHANGED <<localStorage, call, todos, nanoids>>

\* fetch settles with `response`: login runs to its end and the thunk
\* dispatches fulfilled or rejected.
settle(response) ==
    /\ inFlight > 0
    /\ inFlight' = inFlight - 1
    /\ LET result == login(response, localStorage)
           action == loginAsync(result)
       IN /\ localStorage' = result.store
          /\ auth' = IF action.type = "auth/login/fulfilled"
                     THEN fulfilled(auth, action.payload)
                     ELSE rejected(auth, action.payload)
          /\ last' = Event(action.type, action.payload, Some(response), FALSE)
    /\ UNCHANGED <<call, todos, nanoids>>

\* dispatch(logout()): the reducer calls logoutApi and resets the slice.
logout ==
    /\ localStorage' = logoutApi(localStorage)
    /\ auth' = logoutReducer(auth)
    /\ last' = Event("auth/logout", null, null, FALSE)
    /\ UNCHANGED <<inFlight, call, todos, nanoids>>

\* dispatch(clearError())
clearError ==
    /\ auth' = clearErrorReducer(auth)
    /\ last' = Event("auth/clearError", null, null, FALSE)
    /\ UNCHANGED <<localStorage, inFlight, call, todos, nanoids>>

Next ==
    \/ \E email \in Inputs, password \in Inputs :
          loginHandler([email |-> email, password |-> password])
    \/ \E response \in Responses : settle(response)
    \/ logout
    \/ clearError
    \/ reload

Spec == Init /\ [][Next]_vars

----------------------------------------------------------------------------
(* One visit of the page, on a transport that answers or fails every       *)
(* request it was handed: the continuation of a login whose fetch has      *)
(* settled is run by the event loop, so a settlement that stays possible   *)
(* happens.  The page is not reloaded, which would abandon its requests.   *)
(* A settlement always changes inFlight, which is the subscript.           *)

NextLive ==
    \/ \E email \in Inputs, password \in Inputs :
          loginHandler([email |-> email, password |-> password])
    \/ \E response \in Responses : settle(response)
    \/ logout
    \/ clearError

SpecLive ==
    /\ Init
    /\ [][NextLive]_vars
    /\ WF_inFlight(\E response \in Responses : settle(response))

----------------------------------------------------------------------------
(* Startup on a Session Store in any condition.  localStorage belongs to   *)
(* the origin, not to the page: between two visits it may have been        *)
(* written by the page itself, by another script of the origin or by hand. *)

StoredAccessTokens == {null, Some(<< >>), Some(TokenA), Some(TokenB), Some(TokenNoDot)}

StoredRefreshTokens == {null, Some(Str("r1")), Some(Str("undefined"))}

StoredUsers ==
    {null,
     Some(JSONstringify(userInfo(ValueOf(JSONparse(Base64Decode["pA"]).value)))),
     Some(JSONText("null", << >>)),
     Some(NotJSON)}

StoreContents ==
    {[accessToken |-> a, refreshToken |-> r, user |-> u] :
        a \in StoredAccessTokens, r \in StoredRefreshTokens, u \in StoredUsers}

\* authSlice.ts evaluated at page load: initialState calls getStoredUser,
\* whose JSON.parse is not in a try block, so an error it throws leaves the
\* module unevaluated and no store is created.
loadModule(store) ==
    IF getStoredUser(store).thrown THEN Throw
    ELSE Return(Some(initialState(store)))

\* What `last` holds around a page load.
PageEvent(type) ==
    [type |-> type, payload |-> null, data |-> NoBody, response |-> null,
     wasAuthenticated |-> FALSE, blankInput |-> FALSE, writeFailed |-> FALSE,
     settledAfter |-> "other"]

\* The page is not open; there is no slice yet.
InitBoot ==
    /\ localStorage \in StoreContents
    /\ auth = null
    /\ inFlight = 0
    /\ last = PageEvent("page/closed")
    /\ call = NoCall
    /\ todos = todoInitialState
    /\ nanoids = {}

\* The page is opened.
boot ==
    /\ last.type = "page/closed"
    /\ LET loaded == loadModule(localStorage)
       IN IF loaded.thrown
          THEN /\ last' = PageEvent("@@INIT/threw")
               /\ UNCHANGED auth
          ELSE /\ last' = PageEvent("@@INIT")
               /\ auth' = ValueOf(loaded.value)
    /\ UNCHANGED <<localStorage, inFlight, call, todos, nanoids>>

NextBoot == boot

SpecBoot == InitBoot /\ [][NextBoot]_vars

----------------------------------------------------------------------------
(* The store driven through the Login component only: what the component   *)
(* renders decides which handlers the user can reach.                      *)

\* The form is rendered while the slice is not authenticated; its button
\* submits when it is not disabled.
uiSubmit(input) ==
    /\ ~auth.isAuthenticated
    /\ submitEnabled(auth, input)
    /\ loginHandler(input)

\* The Logout button is rendered while the slice is authenticated.
uiLogout ==
    /\ auth.isAuthenticated
    /\ logout

\* The effect of Login.tsx: if (error) dispatch(clearError()).
uiClearError ==
    /\ Truthy(auth.error)
    /\ clearError

\* The page is opened on whatever Session Store the browser holds, provided
\* the module loads.
InitUI ==
    /\ localStorage \in {store \in StoreContents : ~loadModule(store).thrown}
    /\ auth = initialState(localStorage)
    /\ inFlight = 0
    /\ last = PageEvent("@@INIT")
    /\ call = NoCall
    /\ todos = todoInitialState
    /\ nanoids = {}

NextUI ==
    \/ \E email \in Inputs, password \in Inputs :
          uiSubmit([email |-> email, password |-> password])
    \/ \E response \in Responses : settle(response)
    \/ uiLogout
    \/ uiClearError
    \/ reload

SpecUI == InitUI /\ [][NextUI]_vars

----------------------------------------------------------------------------
(* decodeJWT on its own, on any text.                                      *)

\* The delimiter, a chunk that decodes to a record, one that decodes to the
\* JSON literal null, one that decodes to bytes that are not JSON, and a
\* character outside the base64 alphabet.
TokenAtoms == {".", "pA", "pNull", "pBin", "%"}

TokenStrings == UNION {[1..n -> TokenAtoms] : n \in 0..MaxTokenLen}

InitDecode ==
    /\ localStorage = EmptyStore
    /\ auth = initialState(EmptyStore)
    /\ inFlight = 0
    /\ last = PageEvent("@@INIT")
    /\ call \in {[token |-> t, returned |-> FALSE, value |-> null] : t \in TokenStrings}
    /\ todos = todoInitialState
    /\ nanoids = {}

\* decodeJWT(call.token) returns.
decode ==
    /\ ~call.returned
    /\ call' = [call EXCEPT !.returned = TRUE, !.value = decodeJWT(call.token)]
    /\ UNCHANGED <<localStorage, auth, inFlight, last, todos, nanoids>>

NextDecode == decode

SpecDecode == InitDecode /\ [][NextDecode]_vars

----------------------------------------------------------------------------
(* decodeJWT called again and again on one well-formed token while the     *)
(* Login component is in use.                                              *)

WellFormedTokens == {TokenA, TokenB}

InitRedecode ==
    /\ localStorage \in {store \in StoreContents : ~loadModule(store).thrown}
    /\ auth = initialState(localStorage)
    /\ inFlight = 0
    /\ last = PageEvent("@@INIT")
    /\ call \in {[token |-> t, returned |-> FALSE, value |-> null] : t \in WellFormedTokens}
    /\ todos = todoInitialState
    /\ nanoids = {}

\* decodeJWT(call.token) returns, for the first time or once more.
redecode ==
    /\ call' = [call EXCEPT !.returned = TRUE, !.value = decodeJWT(call.token)]
    /\ UNCHANGED <<localStorage, auth, inFlight, last, todos, nanoids>>

NextRedecode ==
    \/ NextUI
    \/ redecode

SpecRedecode == InitRedecode /\ [][NextRedecode]_vars

----------------------------------------------------------------------------
(* The Login component in use on a browser that may refuse a write to      *)
(* localStorage (storage full, storage disabled).                          *)

\* fetch settles with `response` and the browser refuses the write numbered
\* failAt, if login gets to make it.
settleWriting(response, failAt) ==
    /\ inFlight > 0
    /\ inFlight' = inFlight - 1
    /\ LET tried == loginTry(response, localStorage, failAt)
           result == loginWriting(response, localStorage, failAt)
           action == loginAsync(result)
       IN /\ localStorage' = result.store
          /\ auth' = IF action.type = "auth/login/fulfilled"
                     THEN fulfilled(auth, action.payload)
                     ELSE rejected(auth, action.payload)
          /\ last' = [Event(action.type, action.payload, Some(response), FALSE)
                         EXCEPT !.writeFailed = tried.refused]
    /\ UNCHANGED <<call, todos, nanoids>>

NextQuota ==
    \/ \E email \in Inputs, password \in Inputs :
          uiSubmit([email |-> email, password |-> password])
    \/ \E response \in Responses, failAt \in 0..Len(Writes) :
          settleWriting(response, failAt)
    \/ uiLogout
    \/ uiClearError
    \/ reload

SpecQuota == InitUI /\ [][NextQuota]_vars

----------------------------------------------------------------------------
(* The store with setLoading, which the slice exports and no component     *)
(* dispatches, in use next to the Login component.                         *)

\* A boolean payload as `last` holds it.
BoolText(b) == IF b THEN Str("true") ELSE Str("false")

\* dispatch(setLoading(b))
setLoading(b) ==
    /\ auth' = setLoadingReducer(auth, b)
    /\ last' = [Event("auth/setLoading", null, null, FALSE)
                   EXCEPT !.payload = Some(BoolText(b))]
    /\ UNCHANGED <<localStorage, inFlight, call, todos, nanoids>>

NextSetLoading ==
    \/ NextUI
    \/ \E b \in BOOLEAN : setLoading(b)

SpecSetLoading == InitUI /\ [][NextSetLoading]_vars

----------------------------------------------------------------------------
(* The todo list in use.                                                   *)

\* What `last` holds for a todo action: its type and its payload.
TodoEvent(type, payload) ==
    [type |-> type, payload |-> Some(payload), data |-> NoBody, response |-> null,
     wasAuthenticated |-> FALSE, blankInput |-> FALSE, writeFailed |-> FALSE,
     settledAfter |-> "other"]

\* dispatch(addTodo(text))
addTodo(text) ==
    /\ Cardinality(nanoids) < MaxAdds
    /\ \E id \in nanoid(nanoids) :
          /\ todos' = addTodoReducer(todos, id, text)
          /\ nanoids' = nanoids \cup {id}
    /\ last' = TodoEvent("todo/addTodo", text)
    /\ UNCHANGED <<localStorage, auth, inFlight, call>>

\* dispatch(removeTodo(id))
removeTodo(id) ==
    /\ todos' = removeTodoReducer(todos, id)
    /\ last' = TodoEvent("todo/removeTodo", id)
    /\ UNCHANGED <<localStorage, auth, inFlight, call, nanoids>>

NextTodo ==
    \/ \E text \in TodoTexts : addTodo(text)
    \/ \E id \in {Str("1")} \cup NanoIds : removeTodo(id)

SpecTodo == Init /\ [][NextTodo]_vars

----------------------------------------------------------------------------
(* Vocabulary of the properties.                                           *)

Settled == last.type \in {"auth/login/fulfilled", "auth/login/rejected"}

\* The response the login that settled last received.
LastResponse == ValueOf(last.response)

LastBody == LastResponse.json.value

\* The login that settled last got no usable 2xx answer: fetch failed, the
\* status was not 2xx, or the body was not JSON.
NetworkFailed ==
    /\ Settled
    /\ LastResponse.failed \/ ~LastResponse.ok \/ LastResponse.json.thrown

\* The login that settled last got a 2xx answer with success=true and an
\* access token.
NetworkSucceeded ==
    /\ Settled
    /\ ~LastResponse.failed /\ LastResponse.ok /\ ~LastResponse.json.thrown
    /\ LastBody.success /\ Truthy(LastBody.accessToken)

TokenDecodes == decodeJWT(ValueOf(LastBody.accessToken)) # null

\* The record login projects from a decoded payload.
Projection(d) == [k \in Range(UserKeys) |-> Get(d, k)]

\* The loginFailed / idle shape of the slice with the given error.
Unauthenticated(error) ==
    [user |-> null, accessToken |-> null, refreshToken |-> null,
     isAuthenticated |-> FALSE, loading |-> FALSE, error |-> error,
     loginMessage |-> null]

\* Two user records (or nulls) that read the same under every field.
SameUser(u, v) ==
    /\ (u = null) <=> (v = null)
    /\ u # null => \A k \in Range(UserKeys) : Get(ValueOf(u), k) = Get(ValueOf(v), k)

----------------------------------------------------------------------------
(* Properties.                                                             *)

\* C1: in every reachable state the slice holds a user record if and only
\* if it holds an access token.
C1_UserIffAccessToken == (auth.user # null) <=> (auth.accessToken # null)

\* C2: a login answered 2xx with success=true and an access token that does
\* not decode ends in the loginFailed shape: not authenticated, no user, no
\* access token, an error set.
C2_UndecodableTokenFailsLogin ==
    (NetworkSucceeded /\ ~TokenDecodes) =>
        /\ ~auth.isAuthenticated
        /\ auth.user = null
        /\ auth.accessToken = null
        /\ auth.error # null

\* C3: when the page is reloaded right after a login that ended
\* authenticated, the slice initialised from the Session Store is
\* authenticated and holds the user record the slice held before.
C3_ReloadRestoresSession ==
    [][(last.type = "auth/login/fulfilled" /\ auth.isAuthenticated
            /\ last'.type = "@@INIT")
        => (auth'.isAuthenticated /\ SameUser(auth'.user, auth.user))]_vars

\* C4: logout is one step, after which the three Session Store keys are
\* absent and the slice is the unauthenticated shape with error and message
\* null, also when a login is in flight.
C4_LogoutClearsBoth ==
    last.type = "auth/logout" =>
        /\ \A k \in StoreKeys : localStorage[k] = null
        /\ auth = Unauthenticated(null)

C4_Witness ==
    /\ last.type = "auth/logout"
    /\ last.wasAuthenticated
    /\ inFlight > 0

\* C5: neither the dispatch nor the rejected settlement of a login writes a
\* Session Store key.
C5_RejectedLoginWritesNothing ==
    [][last'.type \in {"auth/login/pending", "auth/login/rejected"}
        => localStorage' = localStorage]_vars

C5_Witness ==
    /\ last.type = "auth/login/rejected"
    /\ NetworkFailed
    /\ \A k \in StoreKeys : localStorage[k] # null

\* C6: a login that fails at the network level is rejected and leaves the
\* slice in the unauthenticated shape with error the failure message, which
\* is not null.
C6_NetworkFailureSetsError ==
    NetworkFailed =>
        /\ last.type = "auth/login/rejected"
        /\ Truthy(last.payload)
        /\ auth = Unauthenticated(last.payload)

C6_Witness ==
    /\ NetworkFailed
    /\ last.wasAuthenticated
    /\ auth.error = Some(GenericMessage)

\* The record C7 expects in the slice: the four fields of the payload of
\* the token the login that settled last received.
ExpectedUser == Projection(ValueOf(decodeJWT(ValueOf(LastBody.accessToken))))

\* C7 as stated: a login answered 2xx with success=true and a token that
\* decodes ends authenticated with the projected user, the tokens and the
\* message of the response, and with the same tokens and user in the
\* Session Store.
C7_LoginStoresResponseValues ==
    (NetworkSucceeded /\ TokenDecodes) =>
        /\ auth = [user            |-> Some(ExpectedUser),
                   accessToken     |-> LastBody.accessToken,
                   refreshToken    |-> LastBody.refreshToken,
                   isAuthenticated |-> TRUE,
                   loading         |-> FALSE,
                   error           |-> null,
                   loginMessage    |-> LastBody.message]
        /\ localStorage = [accessToken  |-> LastBody.accessToken,
                           refreshToken |-> LastBody.refreshToken,
                           user         |-> Some(JSONstringify(ExpectedUser))]

\* null for an absent or empty string, else the string.
NullIfEmpty(v) == IF v = null \/ v = Some(<< >>) THEN null ELSE v

\* C7, amended: as C7, but the slice holds null for a refresh token or a
\* message that the response leaves empty or absent, and the refreshToken
\* key holds the text "undefined" when the response carries none.
C7_LoginStoresResponseValuesOrNull ==
    (NetworkSucceeded /\ TokenDecodes) =>
        /\ auth = [user            |-> Some(ExpectedUser),
                   accessToken     |-> LastBody.accessToken,
                   refreshToken    |-> NullIfEmpty(LastBody.refreshToken),
                   isAuthenticated |-> TRUE,
                   loading         |-> FALSE,
                   error           |-> null,
                   loginMessage    |-> NullIfEmpty(LastBody.message)]
        /\ localStorage =
              [accessToken  |-> LastBody.accessToken,
               refreshToken |-> IF LastBody.refreshToken = null
                                THEN Some(Str("undefined"))
                                ELSE LastBody.refreshToken,
               user         |-> Some(JSONstringify(ExpectedUser))]

C7_Witness ==
    /\ NetworkSucceeded /\ TokenDecodes
    /\ LastBody.refreshToken = Some(Str("r1"))
    /\ LastBody.message = Some(Str("ok"))
    /\ auth.user = Some([email |-> Some(Str("a@b.com")), nameid |-> Some(Str("42")),
                         unique_name |-> Some(Str("Alice")), role |-> Some(Str("Admin"))])
    /\ \A k \in StoreKeys : localStorage[k] # null

\* C8: with no login in flight loading is false, and loading is false right
\* after a login settles, fulfilled or rejected.
C8_LoadingOnlyWhileInFlight ==
    /\ inFlight = 0 => ~auth.loading
    /\ Settled => ~auth.loading

C8_Witness ==
    /\ Settled
    /\ inFlight = 0
    /\ ~auth.loading

\* C9: a submit whose email or password is empty after trimming changes no
\* field of the slice, sends no request and writes no Session Store key.
C9_BlankSubmitIgnored ==
    [][last'.blankInput => UNCHANGED <<auth, localStorage, inFlight>>]_vars

C9_Witness ==
    /\ last.type = "loginHandler/return"
    /\ last.blankInput
    /\ ~auth.loading
    /\ inFlight = 0

\* A logout dispatched while the slice is logged out and no login is in
\* flight.
LogoutWhileLoggedOut ==
    /\ last'.type = "auth/logout"
    /\ ~auth.isAuthenticated
    /\ inFlight = 0

C11_ClearErrorClearsErrorOnly ==
    [][/\ ENABLED clearError
       /\ last'.type = "auth/clearError" =>
            /\ auth' = [auth EXCEPT !.error = null]
            /\ auth'.error = null
            /\ UNCHANGED <<localStorage, inFlight>>]_vars

C11_Witness ==
    /\ last.type = "auth/clearError"
    /\ auth.isAuthenticated
    /\ auth.loginMessage # null
    /\ auth.loading
    /\ inFlight > 0

\* The page was opened: the module loaded or failed to.
Booted == last.type \in {"@@INIT", "@@INIT/threw"}

\* C12: the initial slice is computed from the Session Store alone, with no
\* request sent; when the access-token key is absent the loaded session is
\* empty (user, accessToken and refreshToken null, not authenticated),
\* whatever the refresh-token and the user key hold.
C12_NoAccessTokenLoadsEmptySession ==
    (Booted /\ localStorage["accessToken"] = null) =>
        /\ inFlight = 0
        /\ last.type = "@@INIT"
        /\ auth.user = null
        /\ auth.accessToken = null
        /\ auth.refreshToken = null
        /\ ~auth.isAuthenticated

\* C13: when the access-token key is present, initialization completes and
\* the slice is authenticated, whatever the refresh-token and the user key
\* hold; a user entry that does not parse does not make it fail.
C13_AccessTokenLoadsAuthenticated ==
    (Booted /\ localStorage["accessToken"] # null) =>
        /\ last.type = "@@INIT"
        /\ auth.isAuthenticated

\* C14: nothing cancels a login in flight: when a login settles successfully
\* right after a logout, the settlement overwrites the reset, so the slice
\* is authenticated with the tokens of that login and the Session Store is
\* populated again.
C14_LateLoginOverwritesLogout ==
    (NetworkSucceeded /\ last.settledAfter = "logout") =>
        /\ auth.isAuthenticated
        /\ auth.accessToken = LastBody.accessToken
        /\ auth.refreshToken = NullIfEmpty(LastBody.refreshToken)
        /\ localStorage["accessToken"] = LastBody.accessToken
        /\ localStorage["refreshToken"] # null
        /\ TokenDecodes =>
            /\ auth.user = Some(ExpectedUser)
            /\ localStorage["user"] = Some(JSONstringify(ExpectedUser))

C14_Witness ==
    /\ NetworkSucceeded /\ TokenDecodes
    /\ last.settledAfter = "logout"
    /\ auth.isAuthenticated
    /\ auth.accessToken = Some(TokenB)
    /\ \A k \in StoreKeys : localStorage[k] # null

\* A form input loginHandler accepts.
ValidInput == [email |-> Str("a"), password |-> Str("a")]

\* C15: a login can be dispatched while another is in flight, and when a
\* login settles the slice is exactly what that settlement writes, whatever
\* an earlier settlement left: the user, tokens and message of its payload
\* when fulfilled, the unauthenticated shape with its error when rejected.
C15_LastSettlementWins ==
    /\ (inFlight > 0 /\ inFlight < MaxInFlight) => ENABLED loginHandler(ValidInput)
    /\ last.type = "auth/login/fulfilled" =>
          auth = [user            |-> last.data.user,
                  accessToken     |-> NullIfEmpty(last.data.accessToken),
                  refreshToken    |-> NullIfEmpty(last.data.refreshToken),
                  isAuthenticated |-> TRUE,
                  loading         |-> FALSE,
                  error           |-> null,
                  loginMessage    |-> NullIfEmpty(last.data.message)]
    /\ last.type = "auth/login/rejected" => auth = Unauthenticated(last.payload)

\* Two logins were in flight together, the first to settle was fulfilled and
\* the second rejected.
C15_Witness ==
    /\ last.type = "auth/login/rejected"
    /\ last.settledAfter = "settle"
    /\ last.wasAuthenticated
    /\ inFlight = 0
    /\ auth = Unauthenticated(last.payload)

\* C16: driven through the Login component only (submit live only while
\* loading is false and both fields are non-empty after trimming, form shown
\* only while not authenticated, Logout shown only while authenticated), at
\* most one login is in flight, and the slice is loading while it is.
C16_AtMostOneInFlight ==
    /\ inFlight <= 1
    /\ inFlight = 1 => auth.loading /\ ~auth.isAuthenticated

C16_Witness ==
    /\ inFlight = 1
    /\ last.type = "auth/login/pending"
    /\ auth.loading
    /\ ~submitEnabled(auth, ValidInput)

\* The login that settled last was answered with a status outside 2xx and a
\* JSON body.
ApiFailed ==
    /\ Settled
    /\ ~LastResponse.failed /\ ~LastResponse.ok /\ ~LastResponse.json.thrown

\* C17 as stated: a login answered outside 2xx with a body carrying a
\* message is rejected and the error of the slice is that message verbatim.
C17_ErrorMessagePassthrough ==
    (ApiFailed /\ LastBody.message # null) =>
        /\ last.type = "auth/login/rejected"
        /\ auth.error = LastBody.message

\* C17, amended: a login answered outside 2xx with a JSON body is rejected
\* and the error of the slice is the message of the body when that is not
\* empty, and the text "An error occurred" when the message is empty or
\* absent; it is never the generic network message.
C17_ErrorMessagePassthroughOrDefault ==
    ApiFailed =>
        /\ last.type = "auth/login/rejected"
        /\ auth.error = IF Truthy(LastBody.message) THEN LastBody.message
                        ELSE Some(Str("An error occurred"))
        /\ auth.error # Some(GenericMessage)

C17_Witness ==
    /\ ApiFailed
    /\ LastResponse.status = 401
    /\ LastBody.message = Some(Str("Invalid credentials"))
    /\ auth.error = Some(Str("Invalid credentials"))

\* The error the login that settled last threw.
LastError == login(LastResponse, localStorage).value

\* C19: a login whose fetch failed, with no HTTP response, is rejected with
\* the generic message as the error of the slice, and the error thrown
\* carries no status code, unlike the error of a non-2xx response, which
\* carries the HTTP status.
C19_TransportFailureHasNoStatus ==
    /\ (Settled /\ LastResponse.failed) =>
          /\ last.type = "auth/login/rejected"
          /\ auth.error = Some(GenericMessage)
          /\ LastError.status = null
    /\ ApiFailed => LastError.status = Some(LastResponse.status)

\* The segments of the token decodeJWT was called with.
Segments == split(call.token)

\* C18: decodeJWT returns null for every token that does not split on "."
\* into exactly three segments, and for a token whose second segment is not
\* base64 or does not decode to a record; it returns a record only for a
\* three-segment token with a decodable, parsable payload.
C18_DecoderRejectsMalformedTokens ==
    call.returned =>
        /\ Len(Segments) # 3 => call.value = null
        /\ call.value # null =>
              /\ Len(Segments) = 3
              /\ Segments[2] = Str("pA")

\* C20: on a transport that answers or fails every request, a dispatched
\* login is followed by a settlement, fulfilled or rejected, and if from
\* some point on no login is dispatched then from some point on no login is
\* in flight and loading is false.  (A dispatch always changes inFlight.)
C20_EveryLoginSettles ==
    /\ (last.type = "auth/login/pending") ~> Settled
    /\ <>[][last'.type # "auth/login/pending"]_inFlight
          => <>[](inFlight = 0 /\ ~auth.loading)

C20_Witness ==
    /\ last.type = "auth/login/fulfilled"
    /\ last.settledAfter = "settle"
    /\ inFlight = 0
    /\ ~auth.loading
    /\ auth.isAuthenticated

IdsOf(list) == {list[i].id : i \in 1..Len(list)}

\* C22: addTodo(text) appends exactly one item, with a fresh id and the
\* given text, at the end of the list and leaves the items before it and
\* their order as they were; every text is accepted, the empty one too.
C22_AddTodoAppendsOne ==
    [][/\ Cardinality(nanoids) < MaxAdds => \A text \in TodoTexts : ENABLED addTodo(text)
       /\ last'.type = "todo/addTodo" =>
            /\ Len(todos') = Len(todos) + 1
            /\ \A i \in 1..Len(todos) : todos'[i] = todos[i]
            /\ todos'[Len(todos')].text = ValueOf(last'.payload)
            /\ todos'[Len(todos')].id \notin IdsOf(todos) \cup nanoids \cup {Str("1")}]_vars

\* An item with the empty text was added behind two others.
C22_Witness ==
    /\ last.type = "todo/addTodo"
    /\ last.payload = Some(<< >>)
    /\ Len(todos) = 3
    /\ todos[1] = todoInitialState[1]
    /\ todos[3].text = << >>

\* The positions of a todo list whose item has another id than `id`.
Kept(list, id) == {i \in 1..Len(list) : list[i].id # id}

\* C23: removeTodo(id) removes the items whose id is the payload and nothing
\* else, the remaining items keeping their order; with an id that is not in
\* the list it leaves the list as it was, so a second removeTodo(id) changes
\* nothing.
C23_RemoveTodoFilters ==
    [][last'.type = "todo/removeTodo" =>
          LET id == ValueOf(last'.payload)
          IN /\ Len(todos') = Cardinality(Kept(todos, id))
             /\ \A i \in Kept(todos, id) :
                   todos'[Cardinality({k \in Kept(todos, id) : k <= i})] = todos[i]
             /\ id \notin IdsOf(todos) => todos' = todos
             /\ (last.type = "todo/removeTodo" /\ last.payload = last'.payload)
                   => todos' = todos]_vars

\* The first item was removed from under two others.
C23_Witness ==
    /\ last.type = "todo/removeTodo"
    /\ last.payload = Some(Str("1"))
    /\ Len(todos) = 2
    /\ Cardinality(nanoids) = 2

\* C24: when the browser refuses a Session Store write of a login, the
\* login does not end authenticated: it is rejected and the slice holds an
\* error, whichever of the three writes it was.
C24_FailedWriteRejectsLogin ==
    last.writeFailed =>
        /\ last.type = "auth/login/rejected"
        /\ ~auth.isAuthenticated
        /\ auth.error # null

\* The write of the user record was refused after the two token writes.
C24_Witness ==
    /\ last.writeFailed
    /\ last.type = "auth/login/rejected"
    /\ localStorage["accessToken"] = Some(TokenA)
    /\ localStorage["refreshToken"] # null
    /\ localStorage["user"] = null

\* C25: dispatching a login sets loading to true and error to null and
\* leaves user, accessToken, refreshToken, isAuthenticated, the message and
\* the Session Store as they were, so a session held before stays
\* authenticated while the new login is in flight.
C25_PendingKeepsSession ==
    [][last'.type = "auth/login/pending" =>
          /\ auth' = [auth EXCEPT !.loading = TRUE, !.error = null]
          /\ auth'.loading /\ auth'.error = null
          /\ localStorage' = localStorage]_vars

C25_Witness ==
    /\ last.type = "auth/login/pending"
    /\ last.wasAuthenticated
    /\ auth.isAuthenticated
    /\ auth.user # null
    /\ auth.loginMessage # null
    /\ auth.loading
    /\ localStorage["user"] # null

\* C26: setLoading(b) can be dispatched in every state; it sets loading to b
\* and changes no other field of the slice and no Session Store key; after
\* setLoading(true) with no login in flight loading is true, and it is only
\* another operation on the slice that makes it false again.
C26_SetLoadingSetsLoadingOnly ==
    [][/\ \A b \in BOOLEAN : ENABLED setLoading(b)
       /\ \A b \in BOOLEAN :
            (last'.type = "auth/setLoading" /\ last'.payload = Some(BoolText(b))) =>
                /\ auth' = [auth EXCEPT !.loading = b]
                /\ UNCHANGED <<localStorage, inFlight>>
       /\ (auth.loading /\ ~auth'.loading) =>
            last'.type \in {"auth/setLoading", "auth/logout", "@@INIT",
                            "auth/login/fulfilled", "auth/login/rejected"}]_vars

\* loading is true with no login in flight, over an error left by a login.
C26_Witness ==
    /\ last.type = "auth/setLoading"
    /\ auth.loading
    /\ inFlight = 0
    /\ auth.error # null

\* C27: in every reachable state an authenticated slice holds an access
\* token, also after a 2xx response whose body has success=false or no
\* access token.
C27_AuthenticatedHasAccessToken ==
    auth.isAuthenticated => auth.accessToken # null

\* C28: isAuthenticated goes from false to true only when a login settles
\* whose response has success=true; a login answered 2xx with success=false
\* leaves the slice unauthenticated and writes no Session Store key.
C28_OnlySuccessAuthenticates ==
    [][/\ (~auth.isAuthenticated /\ auth'.isAuthenticated) =>
            /\ last'.type = "auth/login/fulfilled"
            /\ ValueOf(last'.response).json.value.success
       /\ (/\ last'.type \in {"auth/login/fulfilled", "auth/login/rejected"}
           /\ ValueOf(last'.response).ok
           /\ ~ValueOf(last'.response).json.thrown
           /\ ~ValueOf(last'.response).json.value.success) =>
            /\ ~auth'.isAuthenticated
            /\ localStorage' = localStorage]_vars

\* C29: in every reachable Session Store the user key is present exactly
\* when the access-token key holds a token that decodes, and it then holds
\* the record decoded from that token, never one left by an earlier token.
C29_StoredUserMatchesStoredToken ==
    LET token == localStorage["accessToken"]
        decoded == IF token = null THEN null ELSE decodeJWT(ValueOf(token))
    IN IF decoded = null THEN localStorage["user"] = null
       ELSE localStorage["user"] = Some(JSONstringify(Projection(ValueOf(decoded))))

\* C30: without setLoading, a slice that holds an error is not
\* authenticated, holds no user and no token, and is not loading.
C30_ErrorOnlyWhenLoggedOut ==
    auth.error # null => auth = Unauthenticated(auth.error)

\* An error is shown while the Session Store still holds a session and
\* another login is in flight.
C30_Witness ==
    /\ auth.error = Some(Str("Invalid credentials"))
    /\ inFlight > 0
    /\ last.wasAuthenticated
    /\ localStorage["accessToken"] # null

\* C31: after any sequence of addTodo and removeTodo from the initial list,
\* no two items of the todo list have the same id, nanoid returning an id
\* it has not returned before and that is not "1".
C31_TodoIdsDistinct ==
    \A i, j \in 1..Len(todos) : todos[i].id = todos[j].id => i = j

\* Two items were added around the removal of the initial one, and the
\* list holds the two added items.
C31_Witness ==
    /\ last.type = "todo/addTodo"
    /\ Len(todos) = 2
    /\ Str("1") \notin IdsOf(todos)
    /\ IdsOf(todos) = nanoids

====
